---------------------------- MODULE Spec2Model ----------------------------
(***************************************************************************)
(* A model of derisk-research's zkLend event pipeline                      *)
(* (apps/data_handler/handlers/events/zklend/transform_events.py) and of   *)
(* the Telegram CRUD accessors (web_app/telegram/crud.py).                 *)
(*                                                                         *)
(* Python values are modelled as follows.  A dict is a record (a function  *)
(* on its keys), a list is a sequence, None is the record None.  A raised  *)
(* exception is a record [exc |-> class name, msg |-> the parts of the     *)
(* message].  A numeric string of the upstream API is a sequence of        *)
(* one-character strings, so that parsing it is a computation.             *)
(***************************************************************************)
EXTENDS Integers, Sequences, FiniteSets, TLC

VARIABLES
    registry,   \* ZklendTransformer.EVENT_MAPPING, the class attribute the methods read
    pc,         \* pc[p]: where invocation p stands in its method
    call,       \* call[p]: the method p was invoked with, and its argument
    response,   \* response[p]: the local `response` of fetch_and_transform_events
    idx,        \* idx[p]: 1-based position of the for loop in the response
    entry,      \* entry[p]: the locals (parser_func, method_name, model_class)
    db_model,   \* db_model[p]: the local `db_model`
    err,        \* err[p]: the exception that left the method, or None
    trace,      \* trace[p]: history of the steps p took: <<op, event index, ok>>
    dbCalls,    \* the calls the shared db connector received, in order
    tables,     \* tables[m]: the rows of model m's table (web_app database)
    before,     \* the tables as they were when the last TelegramCrud call began
    lastCall,   \* the last TelegramCrud call: method, model, arguments
    result      \* what the last TelegramCrud call returned or raised

tvars == <<registry, pc, call, response, idx, entry, db_model, err, trace, dbCalls>>
cvars == <<tables, before, lastCall, result>>
vars == <<registry, pc, call, response, idx, entry, db_model, err, trace, dbCalls,
          tables, before, lastCall, result>>

None == [none |-> TRUE]

\* ------------------------------------------------------------------ bounds
\* longest fetched batch of a single invocation (specification Spec)
MaxLen == 4
\* longest fetched batch of each of two concurrent invocations (SpecConc)
MaxConcLen == 2
\* longest fetched batch run beside a single-event save (SpecSingle)
MaxSingleLen == 1

Invocations == {"A", "B"}

\* ---------------------------------------------------------------- registry
AccKey == "zklend::market::Market::AccumulatorsSync"
LiqKey == "zklend::market::Market::Liquidation"
OtherKey == "zklend::market::Market::Deposit"
\* what an f-string prints for event.get("key_name") when the key is absent
NoneKey == "None"

EVENT_MAPPING ==
    (AccKey :> [parser_func |-> "parse_accumulators_sync_event",
                method_name |-> "create_accumulator_event",
                model_class |-> "AccumulatorsSyncModel"])
    @@
    (LiqKey :> [parser_func |-> "parse_liquidation_event",
                method_name |-> "create_liquidation_event",
                model_class |-> "LiquidationModel"])

\* ------------------------------------------------------------------ parser
\* ZkLendDataParser and the serializers are imported from
\* data_handler.handler_tools.data_parser.serializers (lines 10-14) and
\* modelled from the parser contract: required fields, numeric fields
\* parsed exactly, ValidationError otherwise.
DigitVal ==
    ("0" :> 0) @@ ("1" :> 1) @@ ("2" :> 2) @@ ("3" :> 3) @@ ("4" :> 4) @@
    ("5" :> 5) @@ ("6" :> 6) @@ ("7" :> 7) @@ ("8" :> 8) @@ ("9" :> 9)

IsNumeric(s) ==
    /\ Len(s) > 0
    /\ \A i \in 1..Len(s) : s[i] \in DOMAIN DigitVal

RECURSIVE Decimal(_)
Decimal(s) ==
    IF Len(s) = 0 THEN 0
    ELSE 10 * Decimal(SubSeq(s, 1, Len(s) - 1)) + DigitVal[s[Len(s)]]

\* the name field and the amount field each parser requires
ParserSchema(parser_func) ==
    IF parser_func = "parse_accumulators_sync_event"
    THEN [serializer |-> "AccumulatorsSyncSerializer",
          name |-> "token", amount |-> "lending_accumulator"]
    ELSE [serializer |-> "LiquidationSerializer",
          name |-> "liquidator", amount |-> "debt_raw_amount"]

\* the error of a parser: it is given the payload alone (line 64, 75, 84)
ValidationError(reason, field, payload) ==
    [exc |-> "ValidationError", msg |-> <<reason, field>>, input |-> payload]

\* parser_func(payload): [ok |-> TRUE, value |-> ParsedEventData] or
\* [ok |-> FALSE, error |-> ValidationError]
Parser(parser_func, payload) ==
    LET s == ParserSchema(parser_func) IN
    IF s.name \notin DOMAIN payload
    THEN [ok |-> FALSE, error |-> ValidationError("field required", s.name, payload)]
    ELSE IF s.amount \notin DOMAIN payload
    THEN [ok |-> FALSE, error |-> ValidationError("field required", s.amount, payload)]
    ELSE IF ~IsNumeric(payload[s.amount])
    THEN [ok |-> FALSE, error |-> ValidationError("not a number", s.amount, payload)]
    ELSE [ok |-> TRUE,
          value |-> [serializer |-> s.serializer,
                     fields |-> (s.name :> payload[s.name])
                                @@ (s.amount :> Decimal(payload[s.amount]))]]

\* parsed_data.model_dump(): the fields of the serializer as a dict
ModelDump(parsed_data) == parsed_data.fields

\* model_class(**fields): the ORM object handed to the db connector
Construct(model_class, fields) == [model |-> model_class, columns |-> fields]

\* ------------------------------------------------------------------ inputs
PayAcc == [token |-> "0x1", lending_accumulator |-> <<"1", "0", "7">>]
PayAccBad == [token |-> "0x1", lending_accumulator |-> <<"1", "x">>]
PayLiq == [liquidator |-> "0xa", debt_raw_amount |-> <<"2", "5">>]
PayLiqShort == [liquidator |-> "0xa"]

EvAcc == [key_name |-> AccKey, data |-> PayAcc]
EvAccBad == [key_name |-> AccKey, data |-> PayAccBad]
EvLiq == [key_name |-> LiqKey, data |-> PayLiq]
EvLiqShort == [key_name |-> LiqKey, data |-> PayLiqShort]
EvOther == [key_name |-> OtherKey, data |-> PayAcc]
EvNoKey == [data |-> PayAcc]
EvNoData == [key_name |-> AccKey]

Payloads == {PayAcc, PayAccBad, PayLiq, PayLiqShort}
Events == {EvAcc, EvAccBad, EvLiq, EvLiqShort, EvOther, EvNoKey, EvNoData}
ConcEvents == {EvAcc, EvAccBad, EvLiq, EvOther}

SeqsUpTo(S, n) == UNION {[1..k -> S] : k \in 0..n}

ListResponses(S, n) == {[type |-> "list", items |-> b] : b \in SeqsUpTo(S, n)}

\* a response object with an `error` field, alone or beside other content
ErrorResponses ==
    {[type |-> "dict", keys |-> <<"error">>, error |-> "timeout"],
     [type |-> "dict", keys |-> <<"error", "events">>, error |-> "rate limited"]}

Responses == ListResponses(Events, MaxLen) \cup ErrorResponses
ConcResponses == ListResponses(ConcEvents, MaxConcLen) \cup ErrorResponses
SingleResponses == ListResponses(Events, MaxSingleLen) \cup ErrorResponses


\* ------------------------------------------------------- the db connector
\* ZkLendEventDBConnector is imported from data_handler.db.crud (line 19)
\* and modelled from the persistence contract.  It exposes one named operation
\* per event type, each taking one record; a call returns nothing or fails
\* with a storage error.  Every call it receives is logged.
DbOperations == {"create_accumulator_event", "create_liquidation_event"}

\* db_connector[method_name]: the operation the connector exposes under
\* that name; the single-event saves reach the same operations as attributes
DbItem(method_name) ==
    IF method_name \in DbOperations THEN method_name ELSE NoneKey

StorageError(method_name) == [exc |-> "StorageError", msg |-> <<method_name>>]

DbCall(p, method_name, arg, ok) ==
    dbCalls' = Append(dbCalls,
                      [inv |-> p, method |-> method_name, arg |-> arg, ok |-> ok])

\* ------------------------------------------------------------ transformer
\* faulty variant of ErrorIn: an error is seen only in a response that
\* holds nothing but the `error` field
ErrorIn_onlyKey(resp) ==
    resp.type = "dict" /\ resp.keys = <<"error">>

\* `"error" in response`: key membership for a dict; for a list, membership
\* of the str "error" among its elements, which are event dicts.
ErrorIn(resp) ==
    IF resp.type = "dict"
    THEN \E i \in 1..Len(resp.keys) : resp.keys[i] = "error"
    ELSE FALSE

\* faulty variant of Iter: the batch is walked from its last event
Iter_reversed(resp) ==
    IF resp.type = "list"
    THEN [k \in 1..Len(resp.items) |-> resp.items[Len(resp.items) + 1 - k]]
    ELSE resp.keys

\* what `for event in response` iterates over: the items of a list, the
\* keys of a dict
Iter(resp) == IF resp.type = "list" THEN resp.items ELSE resp.keys

\* event.get("key_name")
EventType(event) ==
    IF "key_name" \in DOMAIN event THEN event.key_name ELSE NoneKey

\* raise ValueError(f"Error fetching events: {response['error']}")
FetchValueError(resp) ==
    [exc |-> "ValueError", msg |-> <<"Error fetching events: ", resp.error>>]

\* faulty variant of UnsupportedValueError: the message leaves the type out
UnsupportedValueError_unnamed(event_type) ==
    [exc |-> "ValueError", msg |-> <<"Event type ", NoneKey, " not supported, yet...">>]

\* raise ValueError(f"Event type {event_type} not supported, yet...")
UnsupportedValueError(event_type) ==
    [exc |-> "ValueError",
     msg |-> <<"Event type ", event_type, " not supported, yet...">>]

Logged(p, op, i, ok) ==
    trace' = [trace EXCEPT ![p] = Append(@, [op |-> op, i |-> i, ok |-> ok])]

Raise(p, e) ==
    /\ err' = [err EXCEPT ![p] = e]
    /\ pc' = [pc EXCEPT ![p] = "raised"]

\* lines 50-54: the call of the API connector; from_address and the block
\* range are handed through, and what it answers is the environment's choice
Fetch(p, responses) ==
    /\ pc[p] = "idle"
    /\ \E r \in responses : response' = [response EXCEPT ![p] = r]
    /\ call' = [call EXCEPT ![p] = [fn |-> "fetch_and_transform_events"]]
    /\ pc' = [pc EXCEPT ![p] = "fetched"]
    /\ UNCHANGED <<registry, idx, entry, db_model, err, trace, dbCalls>>
    /\ UNCHANGED cvars

\* lines 56-57
CheckResponse(p) ==
    /\ pc[p] = "fetched"
    /\ IF ErrorIn(response[p])
       THEN /\ Raise(p, FetchValueError(response[p]))
            /\ UNCHANGED idx
       ELSE /\ pc' = [pc EXCEPT ![p] = "loop"]
            /\ idx' = [idx EXCEPT ![p] = 1]
            /\ UNCHANGED err
    /\ UNCHANGED <<registry, call, response, entry, db_model, trace, dbCalls>>
    /\ UNCHANGED cvars

\* lines 60-63 and 67-68: the next event of the loop and its registry lookup
Lookup(p) ==
    /\ pc[p] = "loop"
    /\ LET items == Iter(response[p]) IN
       IF idx[p] > Len(items)
       THEN /\ pc' = [pc EXCEPT ![p] = "returned"]
            /\ UNCHANGED <<entry, err, trace>>
       ELSE IF response[p].type # "list"
       THEN \* a key of a dict is a str, which has no get()
            /\ Raise(p, [exc |-> "AttributeError", msg |-> <<"get">>])
            /\ Logged(p, "lookup", idx[p], FALSE)
            /\ UNCHANGED entry
       ELSE LET event_type == EventType(items[idx[p]]) IN
            IF event_type \in DOMAIN registry
            THEN /\ entry' = [entry EXCEPT ![p] = registry[event_type]]
                 /\ pc' = [pc EXCEPT ![p] = "parse"]
                 /\ Logged(p, "lookup", idx[p], TRUE)
                 /\ UNCHANGED err
            ELSE /\ Raise(p, UnsupportedValueError(event_type))
                 /\ Logged(p, "lookup", idx[p], FALSE)
                 /\ UNCHANGED entry
    /\ UNCHANGED <<registry, call, response, idx, db_model, dbCalls>>
    /\ UNCHANGED cvars

\* faulty variant of Parse: the built model is kept on the transformer
\* object, which the invocations share, instead of in a local
Parse_shared(p) ==
    /\ pc[p] = "parse"
    /\ LET event == response[p].items[idx[p]] IN
       IF "data" \notin DOMAIN event
       THEN /\ err' = [err EXCEPT ![p] = [exc |-> "KeyError", msg |-> <<"data">>]]
            /\ pc' = [pc EXCEPT ![p] = "raised"]
            /\ trace' = [trace EXCEPT ![p] =
                  Append(@, [op |-> "parse", i |-> idx[p], ok |-> FALSE])]
            /\ UNCHANGED db_model
       ELSE LET r == Parser(entry[p].parser_func, event.data) IN
            IF r.ok
            THEN /\ db_model' = [q \in Invocations |->
                       Construct(entry[p].model_class, ModelDump(r.value))]
                 /\ pc' = [pc EXCEPT ![p] = "persist"]
                 /\ trace' = [trace EXCEPT ![p] =
                       Append(@, [op |-> "parse", i |-> idx[p], ok |-> TRUE])]
                 /\ UNCHANGED err
            ELSE /\ err' = [err EXCEPT ![p] = r.error]
                 /\ pc' = [pc EXCEPT ![p] = "raised"]
                 /\ trace' = [trace EXCEPT ![p] =
                       Append(@, [op |-> "parse", i |-> idx[p], ok |-> FALSE])]
                 /\ UNCHANGED db_model
    /\ UNCHANGED <<registry, call, response, idx, entry, dbCalls>>
    /\ UNCHANGED cvars

\* lines 64-65: event["data"], the parser and the model's constructor
Parse(p) ==
    /\ pc[p] = "parse"
    /\ LET event == Iter(response[p])[idx[p]] IN
       IF "data" \notin DOMAIN event
       THEN /\ Raise(p, [exc |-> "KeyError", msg |-> <<"data">>])
            /\ Logged(p, "parse", idx[p], FALSE)
            /\ UNCHANGED db_model
       ELSE LET r == Parser(entry[p].parser_func, event.data) IN
            IF r.ok
            THEN /\ db_model' = [db_model EXCEPT ![p] =
                       Construct(entry[p].model_class, ModelDump(r.value))]
                 /\ pc' = [pc EXCEPT ![p] = "persist"]
                 /\ Logged(p, "parse", idx[p], TRUE)
                 /\ UNCHANGED err
            ELSE /\ Raise(p, r.error)
                 /\ Logged(p, "parse", idx[p], FALSE)
                 /\ UNCHANGED db_model
    /\ UNCHANGED <<registry, call, response, idx, entry, dbCalls>>
    /\ UNCHANGED cvars

\* faulty variant of Persist: the connector operation is written out
\* instead of taken from the registry entry
Persist_hardcoded(p) ==
    /\ pc[p] = "persist"
    /\ \/ /\ dbCalls' = Append(dbCalls,
                [inv |-> p, method |-> "create_accumulator_event",
                 arg |-> db_model[p], ok |-> TRUE])
          /\ trace' = [trace EXCEPT ![p] =
                Append(@, [op |-> "persist", i |-> idx[p], ok |-> TRUE])]
          /\ idx' = [idx EXCEPT ![p] = @ + 1]
          /\ pc' = [pc EXCEPT ![p] = "loop"]
          /\ UNCHANGED err
       \/ /\ dbCalls' = Append(dbCalls,
                [inv |-> p, method |-> "create_accumulator_event",
                 arg |-> db_model[p], ok |-> FALSE])
          /\ trace' = [trace EXCEPT ![p] =
                Append(@, [op |-> "persist", i |-> idx[p], ok |-> FALSE])]
          /\ err' = [err EXCEPT ![p] =
                [exc |-> "StorageError", msg |-> <<"create_accumulator_event">>]]
          /\ pc' = [pc EXCEPT ![p] = "raised"]
          /\ UNCHANGED idx
    /\ UNCHANGED <<registry, call, response, entry, db_model>>
    /\ UNCHANGED cvars

\* faulty variant of Persist: a failed call is tried again
Persist_retry(p) ==
    /\ pc[p] = "persist"
    /\ \/ /\ dbCalls' = Append(dbCalls,
                [inv |-> p, method |-> entry[p].method_name,
                 arg |-> db_model[p], ok |-> TRUE])
          /\ trace' = [trace EXCEPT ![p] =
                Append(@, [op |-> "persist", i |-> idx[p], ok |-> TRUE])]
          /\ idx' = [idx EXCEPT ![p] = @ + 1]
          /\ pc' = [pc EXCEPT ![p] = "loop"]
          /\ UNCHANGED err
       \/ /\ ~\E k \in 1..Len(trace[p]) :
                 trace[p][k] = [op |-> "persist", i |-> idx[p], ok |-> FALSE]
          /\ dbCalls' = Append(dbCalls,
                [inv |-> p, method |-> entry[p].method_name,
                 arg |-> db_model[p], ok |-> FALSE])
          /\ trace' = [trace EXCEPT ![p] =
                Append(@, [op |-> "persist", i |-> idx[p], ok |-> FALSE])]
          /\ UNCHANGED <<idx, pc, err>>
    /\ UNCHANGED <<registry, call, response, entry, db_model>>
    /\ UNCHANGED cvars

\* line 66: self.db_connector[method_name](db_model); the call returns, and
\* the loop moves on, or it fails, and the failure leaves the method
Persist(p) ==
    /\ pc[p] = "persist"
    /\ \/ /\ DbCall(p, DbItem(entry[p].method_name), db_model[p], TRUE)
          /\ Logged(p, "persist", idx[p], TRUE)
          /\ idx' = [idx EXCEPT ![p] = @ + 1]
          /\ pc' = [pc EXCEPT ![p] = "loop"]
          /\ UNCHANGED err
       \/ /\ DbCall(p, DbItem(entry[p].method_name), db_model[p], FALSE)
          /\ Logged(p, "persist", idx[p], FALSE)
          /\ Raise(p, StorageError(DbItem(entry[p].method_name)))
          /\ UNCHANGED idx
    /\ UNCHANGED <<registry, call, response, entry, db_model>>
    /\ UNCHANGED cvars

\* lines 74-77 and 83-87: a whole single-event save, for the registry key
\* and the connector method the method names
SaveEvent(p, fn, key, method_name, event) ==
    /\ pc[p] = "idle"
    /\ call' = [call EXCEPT ![p] = [fn |-> fn, event |-> event]]
    /\ LET e == registry[key]
           r == Parser(e.parser_func, event)
       IN  IF ~r.ok
           THEN /\ Raise(p, r.error)
                /\ Logged(p, "parse", 1, FALSE)
                /\ UNCHANGED <<entry, db_model, dbCalls>>
           ELSE LET m == Construct(e.model_class, ModelDump(r.value)) IN
                /\ entry' = [entry EXCEPT ![p] = e]
                /\ db_model' = [db_model EXCEPT ![p] = m]
                /\ \/ /\ DbCall(p, method_name, m, TRUE)
                      /\ trace' = [trace EXCEPT ![p] =
                            <<[op |-> "parse", i |-> 1, ok |-> TRUE],
                              [op |-> "persist", i |-> 1, ok |-> TRUE]>>]
                      /\ pc' = [pc EXCEPT ![p] = "returned"]
                      /\ UNCHANGED err
                   \/ /\ DbCall(p, method_name, m, FALSE)
                      /\ trace' = [trace EXCEPT ![p] =
                            <<[op |-> "parse", i |-> 1, ok |-> TRUE],
                              [op |-> "persist", i |-> 1, ok |-> FALSE]>>]
                      /\ Raise(p, StorageError(method_name))
    /\ UNCHANGED <<registry, response, idx>>
    /\ UNCHANGED cvars

\* lines 70-77
SaveAccumulatorsSyncEvent(p) ==
    \E event \in Payloads :
        SaveEvent(p, "save_accumulators_sync_event", AccKey,
                  "create_accumulator_event", event)

\* faulty variant of SaveLiquidationEvent: the connector call is the one
\* of save_accumulators_sync_event
SaveLiquidationEvent_copied(p) ==
    \E event \in Payloads :
        /\ pc[p] = "idle"
        /\ call' = [call EXCEPT ![p] = [fn |-> "save_liquidation_event", event |-> event]]
        /\ LET e == registry[LiqKey]
               r == Parser(e.parser_func, event)
           IN  IF ~r.ok
               THEN /\ err' = [err EXCEPT ![p] = r.error]
                    /\ pc' = [pc EXCEPT ![p] = "raised"]
                    /\ trace' = [trace EXCEPT ![p] =
                          <<[op |-> "parse", i |-> 1, ok |-> FALSE]>>]
                    /\ UNCHANGED <<entry, db_model, dbCalls>>
               ELSE LET m == Construct(e.model_class, ModelDump(r.value)) IN
                    /\ entry' = [entry EXCEPT ![p] = e]
                    /\ db_model' = [db_model EXCEPT ![p] = m]
                    /\ dbCalls' = Append(dbCalls,
                          [inv |-> p, method |-> "create_accumulator_event",
                           arg |-> m, ok |-> TRUE])
                    /\ trace' = [trace EXCEPT ![p] =
                          <<[op |-> "parse", i |-> 1, ok |-> TRUE],
                            [op |-> "persist", i |-> 1, ok |-> TRUE]>>]
                    /\ pc' = [pc EXCEPT ![p] = "returned"]
                    /\ UNCHANGED err
        /\ UNCHANGED <<registry, response, idx>>
        /\ UNCHANGED cvars

\* lines 79-87
SaveLiquidationEvent(p) ==
    \E event \in Payloads :
        SaveEvent(p, "save_liquidation_event", LiqKey,
                  "create_liquidation_event", event)


\* ------------------------------------------------- web_app database models
\* the model classes of database/models.py; every table has the primary
\* key `id` of Base
Models == {"NotificationData", "TelegramLog", "OrderBookModel"}

Ids == {"u1", "u2"}

\* the columns the model keeps of each table
Columns(model) ==
    IF model = "NotificationData" THEN {"id", "telegram_id"}
    ELSE IF model = "TelegramLog"
    THEN {"id", "notification_data_id", "is_succesfully"}
    ELSE {"id", "dex"}

Rows(model) ==
    IF model = "NotificationData"
    THEN [id : Ids, telegram_id : {"t1", "t2"}]
    ELSE IF model = "TelegramLog"
    THEN [id : Ids, notification_data_id : Ids, is_succesfully : BOOLEAN]
    ELSE [id : Ids, dex : {"d1"}]

\* the filters a caller passes as **filters
Filters ==
    [id : Ids] \cup [telegram_id : {"t1", "t2"}] \cup [notification_data_id : Ids]
    \cup [dex : {"d1"}]

\* TelegramLog.notification_data_id = ForeignKey(NotificationData.id)
Referenced(tbls, nid) ==
    \E l \in tbls["TelegramLog"] : l.notification_data_id = nid

Returned(v) == [kind |-> "return", value |-> v]
Raised(exc) == [kind |-> "raise", exc |-> exc]

\* db.get(model, obj_id)
DbGet(tbls, model, obj_id) ==
    IF \E r \in tbls[model] : r.id = obj_id
    THEN CHOOSE r \in tbls[model] : r.id = obj_id
    ELSE None

\* ------------------------------------------------------------ TelegramCrud
Called(fn, model, args) ==
    /\ lastCall' = [fn |-> fn, model |-> model, args |-> args]
    /\ before' = tables

\* create_object(obj): db.add(obj) and commit; the database refuses a
\* duplicate primary key and a log of a notification that does not exist
CreateObject(model, row) ==
    /\ Called("create_object", model, row)
    /\ IF \/ \E r \in tables[model] : r.id = row.id
          \/ /\ model = "TelegramLog"
             /\ ~\E n \in tables["NotificationData"] : n.id = row.notification_data_id
       THEN /\ result' = Raised("IntegrityError")
            /\ UNCHANGED tables
       ELSE /\ tables' = [tables EXCEPT ![model] = @ \cup {row}]
            /\ result' = Returned(row)
    /\ UNCHANGED tvars

\* get_object(model, obj_id)
GetObject(model, obj_id) ==
    /\ Called("get_object", model, obj_id)
    /\ result' = Returned(DbGet(tables, model, obj_id))
    /\ UNCHANGED tables
    /\ UNCHANGED tvars

\* get_new_notification_object(notification_id), lines 90-103
GetNewNotificationObject(notification_id) ==
    /\ Called("get_new_notification_object", "NotificationData", notification_id)
    /\ LET log_exists ==
               \E l \in tables["TelegramLog"] :
                   /\ l.notification_data_id = notification_id
                   /\ l.is_succesfully = TRUE
       IN  IF log_exists
           THEN result' = Returned(None)
           ELSE result' = Returned(DbGet(tables, "NotificationData", notification_id))
    /\ UNCHANGED tables
    /\ UNCHANGED tvars

\* the statement delete(NotificationData).<condition> and the commit: the
\* database refuses to delete a notification a log refers to
DeleteNotifications(doomed) ==
    IF \E n \in doomed : Referenced(tables, n.id)
    THEN /\ result' = Raised("IntegrityError")
         /\ UNCHANGED tables
    ELSE /\ tables' = [tables EXCEPT !["NotificationData"] = @ \ doomed]
         /\ result' = Returned(None)

\* delete_object(model, obj_id), lines 115-118
DeleteObject(model, obj_id) ==
    /\ Called("delete_object", model, obj_id)
    /\ DeleteNotifications({n \in tables["NotificationData"] : n.id = obj_id})
    /\ UNCHANGED tvars

\* delete_objects_by_filter(model, **filters), lines 128-131; filter_by
\* refuses a keyword that is no attribute of the entity of the statement
DeleteObjectsByFilter(model, filters) ==
    /\ Called("delete_objects_by_filter", model, filters)
    /\ IF ~(DOMAIN filters \subseteq Columns("NotificationData"))
       THEN /\ result' = Raised("InvalidRequestError")
            /\ UNCHANGED tables
       ELSE DeleteNotifications(
                {n \in tables["NotificationData"] :
                    \A k \in DOMAIN filters : n[k] = filters[k]})
    /\ UNCHANGED tvars

\* ------------------------------------------------------------------- init
InitTransformer ==
    /\ registry = EVENT_MAPPING
    /\ pc = [p \in Invocations |-> "idle"]
    /\ call = [p \in Invocations |-> None]
    /\ response = [p \in Invocations |-> None]
    /\ idx = [p \in Invocations |-> 0]
    /\ entry = [p \in Invocations |-> None]
    /\ db_model = [p \in Invocations |-> None]
    /\ err = [p \in Invocations |-> None]
    /\ trace = [p \in Invocations |-> <<>>]
    /\ dbCalls = <<>>

InitCrud ==
    /\ tables = [m \in Models |-> {}]
    /\ before = [m \in Models |-> {}]
    /\ lastCall = None
    /\ result = None

Init == InitTransformer /\ InitCrud

\* one fetch_and_transform_events invocation
Next ==
    \/ Fetch("A", Responses)
    \/ CheckResponse("A")
    \/ Lookup("A")
    \/ Parse("A")
    \/ Persist("A")

Spec == Init /\ [][Next]_vars

\* two fetch_and_transform_events invocations, interleaved at every step
NextConc ==
    \E p \in Invocations :
        \/ Fetch(p, ConcResponses)
        \/ CheckResponse(p)
        \/ Lookup(p)
        \/ Parse(p)
        \/ Persist(p)

SpecConc == Init /\ [][NextConc]_vars

\* a fetch_and_transform_events invocation beside a single-event save
NextSingle ==
    \/ Fetch("A", SingleResponses)
    \/ CheckResponse("A")
    \/ Lookup("A")
    \/ Parse("A")
    \/ Persist("A")
    \/ SaveAccumulatorsSyncEvent("B")
    \/ SaveLiquidationEvent("B")

SpecSingle == Init /\ [][NextSingle]_vars

NextCrud ==
    \/ \E model \in Models : \E row \in Rows(model) : CreateObject(model, row)
    \/ \E model \in Models : \E obj_id \in Ids : GetObject(model, obj_id)
    \/ \E notification_id \in Ids : GetNewNotificationObject(notification_id)
    \/ \E model \in Models : \E obj_id \in Ids : DeleteObject(model, obj_id)
    \/ \E model \in Models : \E filters \in Filters :
           DeleteObjectsByFilter(model, filters)

SpecCrud == Init /\ [][NextCrud]_vars


\* ================================================================== claims
\* The reference semantics the claims are stated against: what one event
\* maps to under the static registry, computed apart from the actions.
Done(p) == pc[p] \in {"returned", "raised"}

IsList(p) == pc[p] # "idle" /\ call[p].fn = "fetch_and_transform_events"
             /\ response[p].type = "list"

\* the calls invocation p made on the db connector, in the order of the log
Proj(p) == SelectSeq(dbCalls, LAMBDA c : c.inv = p)

CallsOf(p) ==
    [k \in 1..Len(Proj(p)) |-> [method |-> Proj(p)[k].method, arg |-> Proj(p)[k].arg]]

Completed(p) ==
    LET done == SelectSeq(Proj(p), LAMBDA c : c.ok) IN
    [k \in 1..Len(done) |-> [method |-> done[k].method, arg |-> done[k].arg]]

Registered(e) == "key_name" \in DOMAIN e /\ e.key_name \in DOMAIN EVENT_MAPPING

WellFormed(e) ==
    /\ Registered(e)
    /\ "data" \in DOMAIN e
    /\ Parser(EVENT_MAPPING[e.key_name].parser_func, e.data).ok

EventCall(e) ==
    IF WellFormed(e)
    THEN LET m == EVENT_MAPPING[e.key_name] IN
         [method |-> m.method_name,
          arg |-> Construct(m.model_class,
                            ModelDump(Parser(m.parser_func, e.data).value))]
    ELSE [method |-> NoneKey, arg |-> None]

Image(items) == [k \in 1..Len(items) |-> EventCall(items[k])]

Prefix(items, n) == SubSeq(items, 1, n)

LastStep(p) == trace[p][Len(trace[p])]

\* C1: whenever the fetch response carries an `error` field, alone or
\* beside other content, the invocation ends raising the fetch error (the
\* ValueError "Error fetching events: <detail>") with the upstream detail,
\* and the db connector has received no call from it.
C1_FetchErrorNoPersistence ==
    \A p \in Invocations :
        ( /\ pc[p] \notin {"idle", "fetched"}
          /\ call[p].fn = "fetch_and_transform_events"
          /\ response[p].type = "dict"
          /\ "error" \in DOMAIN response[p] )
        => /\ pc[p] = "raised"
           /\ err[p] = [exc |-> "ValueError",
                        msg |-> <<"Error fetching events: ", response[p].error>>]
           /\ Proj(p) = <<>>
           /\ trace[p] = <<>>

C1_Witness ==
    /\ pc["A"] = "raised"
    /\ response["A"].type = "dict"
    /\ Len(response["A"].keys) > 1
    /\ err["A"].msg = <<"Error fetching events: ", "rate limited">>

\* C2 as stated: when the batch holds an event of an unregistered type the
\* invocation raises the unsupported-event error naming the type and the db
\* connector has received no call for any event of the batch, the events
\* before the unknown one included.
C2_NoPersistenceAtAll ==
    \A p \in Invocations :
        ( /\ IsList(p) /\ pc[p] = "raised"
          /\ LastStep(p).op = "lookup" )
        => /\ err[p].exc = "ValueError"
           /\ err[p].msg[2] = EventType(response[p].items[LastStep(p).i])
           /\ Proj(p) = <<>>

\* C2 amended: a batch holding an event of an unregistered type never
\* returns normally; when the loop reaches such an event it raises the
\* unsupported-event error (the ValueError "Event type <t> not supported,
\* yet...") naming the type, having made no call for that event or any
\* later one, while the events before it have each been persisted, one
\* call per event in batch order.
C2_UnknownTypeAbortsRest ==
    \A p \in Invocations :
        /\ ( IsList(p) /\ pc[p] = "returned" )
           => \A k \in 1..Len(response[p].items) : Registered(response[p].items[k])
        /\ ( IsList(p) /\ pc[p] = "raised" /\ LastStep(p).op = "lookup" )
           => LET i == LastStep(p).i
                  items == response[p].items
              IN  /\ ~Registered(items[i])
                  /\ err[p] = [exc |-> "ValueError",
                               msg |-> <<"Event type ", EventType(items[i]),
                                         " not supported, yet...">>]
                  /\ CallsOf(p) = Image(Prefix(items, i - 1))
                  /\ \A k \in 1..Len(Proj(p)) : Proj(p)[k].ok

C2_Witness ==
    /\ IsList("A") /\ pc["A"] = "raised"
    /\ LastStep("A").op = "lookup"
    /\ LastStep("A").i = 2
    /\ Len(response["A"].items) = 3
    /\ Len(Proj("A")) = 1

\* C3: a fetch_and_transform_events invocation returns normally only when
\* every event of the batch is registered and well formed and the db
\* connector has received from it exactly one successful call per event, in
\* batch order, each on the operation and with the record the registry
\* gives for the event's type.
C3_OneCallPerEventInOrder ==
    \A p \in Invocations :
        ( pc[p] = "returned" /\ call[p].fn = "fetch_and_transform_events" )
        => /\ response[p].type = "list"
           /\ \A k \in 1..Len(response[p].items) : WellFormed(response[p].items[k])
           /\ CallsOf(p) = Image(response[p].items)
           /\ \A k \in 1..Len(Proj(p)) : Proj(p)[k].ok

C3_Witness ==
    /\ pc["A"] = "returned"
    /\ response["A"] = [type |-> "list", items |-> <<EvAcc, EvAcc, EvAcc, EvLiq>>]
    /\ Len(Proj("A")) = 4
    /\ Proj("A")[3].method = "create_accumulator_event"
    /\ Proj("A")[4].method = "create_liquidation_event"

\* C4: a single-event save given payload P has the outcome of
\* fetch_and_transform_events on the one-element batch holding P under the
\* save's event type: the same parse verdict, the same record, the same
\* connector operation called at most once and exactly when the other path
\* calls it, and, the connector answering alike, the same end and error.
SaveFnOf(key) ==
    IF key = AccKey THEN "save_accumulators_sync_event"
    ELSE "save_liquidation_event"

ParsedOk(p) == \E k \in 1..Len(trace[p]) : trace[p][k].op = "parse" /\ trace[p][k].ok

OkFlags(p) == [k \in 1..Len(Proj(p)) |-> Proj(p)[k].ok]

SamePayload(batch, single) ==
    /\ Done(batch) /\ Done(single)
    /\ IsList(batch)
    /\ Len(response[batch].items) = 1
    /\ Registered(response[batch].items[1])
    /\ "data" \in DOMAIN response[batch].items[1]
    /\ call[single].fn = SaveFnOf(response[batch].items[1].key_name)
    /\ call[single].event = response[batch].items[1].data

C4_SingleSaveMatchesBatch ==
    SamePayload("A", "B")
    => /\ ParsedOk("A") = ParsedOk("B")
       /\ CallsOf("A") = CallsOf("B")
       /\ Len(Proj("B")) <= 1
       /\ Len(Proj("B")) = 1 <=> ParsedOk("B")
       /\ ~ParsedOk("B") => pc["A"] = "raised" /\ pc["B"] = "raised"
                            /\ err["A"] = err["B"]
       /\ OkFlags("A") = OkFlags("B") => pc["A"] = pc["B"] /\ err["A"] = err["B"]

C4_Witness ==
    /\ SamePayload("A", "B")
    /\ pc["A"] = "returned" /\ pc["B"] = "returned"
    /\ call["B"].fn = "save_liquidation_event"
    /\ Len(Proj("A")) = 1 /\ Len(Proj("B")) = 1
    /\ Proj("B")[1].method = "create_liquidation_event"

\* C5: when the parser of a registered event fails, the error that leaves
\* fetch_and_transform_events is a ValidationError carrying the event's
\* type identifier and its raw payload, and no persistence call is made
\* for that event.
C5_ValidationErrorTagged ==
    \A p \in Invocations :
        ( /\ IsList(p) /\ pc[p] = "raised"
          /\ LastStep(p).op = "parse"
          /\ "data" \in DOMAIN response[p].items[LastStep(p).i] )
        => LET event == response[p].items[LastStep(p).i] IN
           /\ err[p].exc = "ValidationError"
           /\ Len(Proj(p)) = LastStep(p).i - 1
           /\ "input" \in DOMAIN err[p]
           /\ err[p].input = event.data
           /\ "event_type" \in DOMAIN err[p]
           /\ err[p].event_type = event.key_name

\* C6: fail fast, no recovery: a failed step (a lookup that finds no entry,
\* a parse that fails, a persistence call that fails) is the last step the
\* invocation ever takes and leaves it raised with the failure; no step is
\* taken twice for an event (so at most one persistence attempt per event),
\* events are taken in order, and the failure of a persistence call is the
\* storage error of that one call.
C6_FailFastNoRetry ==
    \A p \in Invocations :
        IsList(p) =>
        LET t == trace[p] IN
        /\ \A k \in 1..Len(t) :
               ~t[k].ok => /\ k = Len(t)
                           /\ pc[p] = "raised"
                           /\ err[p] # None
        /\ \A j, k \in 1..Len(t) :
               j < k => \/ t[j].i < t[k].i
                        \/ t[j].i = t[k].i /\ t[j].op # t[k].op
        /\ Len(Proj(p)) = Cardinality({k \in 1..Len(t) : t[k].op = "persist"})
        /\ pc[p] = "raised" =>
               /\ Len(t) > 0
               /\ ~LastStep(p).ok
               /\ LastStep(p).op = "persist" =>
                      /\ err[p].exc = "StorageError"
                      /\ ~Proj(p)[Len(Proj(p))].ok
                      /\ \A k \in 1..(Len(Proj(p)) - 1) : Proj(p)[k].ok

C6_Witness ==
    /\ IsList("A") /\ pc["A"] = "raised"
    /\ Len(response["A"].items) = 4
    /\ LastStep("A").op = "persist"
    /\ LastStep("A").i = 2
    /\ Len(Proj("A")) = 2

\* C7: with two invocations interleaved, what each one ends with (return
\* or raise, the error, and its own calls on the shared db connector, in
\* the order of the log) is an outcome the same batch has when run alone;
\* before it ends its calls are the image of a prefix of its own batch;
\* the registry stays the static EVENT_MAPPING.
RECURSIVE RunAlone(_, _, _)
RunAlone(items, i, calls) ==
    IF i > Len(items)
    THEN {[status |-> "returned", calls |-> calls, err |-> None]}
    ELSE LET e == items[i] IN
         IF ~Registered(e)
         THEN {[status |-> "raised", calls |-> calls,
                err |-> [exc |-> "ValueError",
                         msg |-> <<"Event type ", EventType(e),
                                   " not supported, yet...">>]]}
         ELSE IF "data" \notin DOMAIN e
         THEN {[status |-> "raised", calls |-> calls,
                err |-> [exc |-> "KeyError", msg |-> <<"data">>]]}
         ELSE IF ~WellFormed(e)
         THEN {[status |-> "raised", calls |-> calls,
                err |-> Parser(EVENT_MAPPING[e.key_name].parser_func, e.data).error]}
         ELSE LET c == EventCall(e) IN
              RunAlone(items, i + 1,
                       Append(calls, [method |-> c.method, arg |-> c.arg, ok |-> TRUE]))
              \cup
              {[status |-> "raised",
                calls |-> Append(calls, [method |-> c.method, arg |-> c.arg,
                                         ok |-> FALSE]),
                err |-> [exc |-> "StorageError", msg |-> <<c.method>>]]}

AloneOutcomes(resp) ==
    IF resp.type = "list"
    THEN RunAlone(resp.items, 1, <<>>)
    ELSE {[status |-> "raised", calls |-> <<>>,
           err |-> [exc |-> "ValueError",
                    msg |-> <<"Error fetching events: ", resp.error>>]]}

Outcome(p) ==
    [status |-> pc[p],
     calls |-> [k \in 1..Len(Proj(p)) |->
                   [method |-> Proj(p)[k].method, arg |-> Proj(p)[k].arg,
                    ok |-> Proj(p)[k].ok]],
     err |-> err[p]]

C7_ConcurrentBatchesIndependent ==
    /\ registry = EVENT_MAPPING
    /\ \A p \in Invocations :
           /\ Done(p) => Outcome(p) \in AloneOutcomes(response[p])
           /\ IsList(p) =>
                  /\ Len(Proj(p)) <= Len(response[p].items)
                  /\ CallsOf(p) = Image(Prefix(response[p].items, Len(Proj(p))))

C7_Witness ==
    /\ pc["A"] = "returned" /\ pc["B"] = "returned"
    /\ response["A"] # response["B"]
    /\ Len(Proj("A")) = 2 /\ Len(Proj("B")) = 2
    /\ dbCalls[1].inv = "A" /\ dbCalls[2].inv = "B"
    /\ dbCalls[3].inv = "A" /\ dbCalls[4].inv = "B"

\* C8: delete_object(model, obj_id) and delete_objects_by_filter(model,
\* **filters) remove only rows of the table of `model`, those with that id
\* or matching the filters, and leave every other table as it was.
C8_DeleteOnlyGivenModel ==
    ( /\ lastCall # None
      /\ lastCall.fn \in {"delete_object", "delete_objects_by_filter"} )
    => /\ \A m \in Models \ {lastCall.model} : tables[m] = before[m]
       /\ tables[lastCall.model] \subseteq before[lastCall.model]

\* C9: get_new_notification_object(notification_id) returns None whenever
\* any TelegramLog row exists for that notification id, and the
\* NotificationData row of that id (None when there is none) otherwise.
C9_NoneIfAnyLogExists ==
    ( /\ lastCall # None
      /\ lastCall.fn = "get_new_notification_object" )
    => /\ result.kind = "return"
       /\ IF \E l \in tables["TelegramLog"] : l.notification_data_id = lastCall.args
          THEN result.value = None
          ELSE result.value = DbGet(tables, "NotificationData", lastCall.args)

\* C10: prefix invariant: at every point of an invocation on a list
\* response the calls the db connector has received from it are the
\* registry image of a prefix of the batch, all but possibly the last
\* completed; when the invocation ends raised at event i, the completed
\* calls are exactly the image of the events before i (nothing is undone),
\* and only a failed call for event i itself can follow them.
C10_PrefixInvariant ==
    \A p \in Invocations :
        IsList(p) =>
        LET items == response[p].items
            n == Len(Proj(p))
        IN  /\ n <= Len(items)
            /\ CallsOf(p) = Image(Prefix(items, n))
            /\ \A k \in 1..(n - 1) : Proj(p)[k].ok
            /\ pc[p] = "raised" =>
                   LET i == LastStep(p).i IN
                   /\ Completed(p) = Image(Prefix(items, i - 1))
                   /\ n \in {i - 1, i}
                   /\ n = i <=> LastStep(p).op = "persist"
            /\ pc[p] = "returned" => Completed(p) = Image(items)

C10_Witness ==
    /\ IsList("A") /\ pc["A"] = "raised"
    /\ LastStep("A").op = "parse"
    /\ LastStep("A").i = 3
    /\ Len(Completed("A")) = 2
    /\ Completed("A")[1].method = "create_accumulator_event"
    /\ Completed("A")[2].method = "create_liquidation_event"

==========================================================================
